---------------------------- MODULE Spec2Model ----------------------------
(***************************************************************************)
(* Model of the auto-EDA pipeline of scripts/auto_eda.py and of the loader *)
(* scripts/load_data.py.                                                   *)
(*                                                                         *)
(* A column is described by what the pipeline observes of it through       *)
(* pandas: its dtype, the number of positions pd.to_datetime parses        *)
(* (parsed.notna().sum()), and s.nunique(dropna=True).  For a column whose *)
(* dtype is not object every non-missing value is a number or a timestamp  *)
(* and parses, so there nparsed is also the count of non-missing values.   *)
(* Column names are the column positions 1..Len(df.cols).                  *)
(***************************************************************************)
EXTENDS Integers, Sequences, FiniteSets, TLC

VARIABLES
    pc,         \* position of the running function
    df,         \* the table: [nrows, cols]
    roles,      \* result of infer_column_roles, or NoRoles
    column,     \* the numeric column handed to quick_outliers_iqr
    outlier,    \* what quick_outliers_iqr returned
    file,       \* the input file: [ext, decodes, table]
    tried,      \* the encodings load_data has passed to the reader, in order
    err,        \* the exception that ended the call, or NoError
    caps,       \* [max_numeric_hists, max_cat_bars]
    idx,        \* index of the running for-loop of run
    fs,         \* the paths created on disk, in order of creation
    charts,     \* run's list charts
    outliers,   \* run's dict outliers, in insertion order
    report,     \* what write_report_md wrote, or NoReport
    numeric,    \* df[roles["numeric"]]: the numeric columns, each a sequence of values
    insight     \* the strong-correlation line of the insights, or NoInsight

rolesVars == <<df, roles>>
iqrVars == <<column, outlier>>
loadVars == <<file, tried, err>>
runVars == <<caps, idx, fs, charts, outliers, report>>
corrVars == <<numeric, insight>>
vars == <<pc, rolesVars, iqrVars, loadVars, runVars, corrVars>>

(***************************************************************************)
(* Bounds of the model.                                                    *)
(***************************************************************************)
MaxRows == 10
ShortRows == 2
MaxCols == 2
MaxLen == 5
RunCols == 2
CorrCols == 3
CorrRows == 3

DTypes == {"object", "numeric", "datetime64"}

\* The columns a table of n rows can hold.
Columns(n) ==
    { s \in [dtype : DTypes, nparsed : 0..n, nunique : 0..n] :
        /\ (s.nparsed > 0) => (s.nunique > 0)
        /\ (s.dtype # "object") => /\ s.nunique <= s.nparsed
                                   /\ (s.nunique > 0) => (s.nparsed > 0) }

\* t is a table of at most maxCols columns whose row count is in rowCounts.
IsTable(t, maxCols, rowCounts) ==
    \E n \in rowCounts : \E k \in 0..maxCols : \E cs \in [1..k -> Columns(n)] :
        t = [nrows |-> n, cols |-> cs]

(***************************************************************************)
(* infer_column_roles                                                      *)
(***************************************************************************)
RoleNames == <<"datetime", "numeric", "categorical", "id_like">>

NoRoles == [datetime |-> <<>>, numeric |-> <<>>, categorical |-> <<>>, id_like |-> <<>>]

parse_success_strict(s, n) == n > 0 /\ 10 * s.nparsed > 7 * n

\* parsed.notna().mean() >= 0.7; the mean of an empty column is NaN, and
\* NaN >= 0.7 is False.
parse_success(s, n) == n > 0 /\ 10 * s.nparsed >= 7 * n

is_numeric_dtype(s) == s.dtype = "numeric"

id_like_any_rows(s, n) == n = 0 \/ 10 * s.nunique > 9 * n

\* n > 0 and (nunique / n) > 0.9
is_id_like(s, n) == n > 0 /\ 10 * s.nunique > 9 * n

LoopBodyNoContinue(r, t, c) ==
    LET s == t.cols[c]
        n == t.nrows
        r1 == IF s.dtype = "object" /\ parse_success(s, n)
              THEN [r EXCEPT !.datetime = Append(@, c)] ELSE r
    IN  IF is_numeric_dtype(s) THEN [r1 EXCEPT !.numeric = Append(@, c)]
        ELSE IF is_id_like(s, n) THEN [r1 EXCEPT !.id_like = Append(@, c)]
        ELSE [r1 EXCEPT !.categorical = Append(@, c)]

\* One iteration of `for col in df.columns`.
LoopBody(r, t, c) ==
    LET s == t.cols[c]
        n == t.nrows
    IN  IF s.dtype = "object" /\ parse_success(s, n)
        THEN [r EXCEPT !.datetime = Append(@, c)]
        ELSE IF is_numeric_dtype(s) THEN [r EXCEPT !.numeric = Append(@, c)]
        ELSE IF is_id_like(s, n) THEN [r EXCEPT !.id_like = Append(@, c)]
        ELSE [r EXCEPT !.categorical = Append(@, c)]

RECURSIVE InferFrom(_, _, _)
InferFrom(r, t, c) ==
    IF c > Len(t.cols) THEN r ELSE InferFrom(LoopBody(r, t, c), t, c + 1)

infer_column_roles(t) == InferFrom(NoRoles, t, 1)

(***************************************************************************)
(* quick_outliers_iqr.  Values are integers; quartiles, the IQR and the    *)
(* bounds are kept exactly, in eighths (q1 = 18 stands for 2.25).          *)
(***************************************************************************)
\* A cell is <<v>> for the number v and <<>> for a missing value.
NA == <<>>
None == [none |-> TRUE]

Values == {0, 1, 2, 7}
Cells == { <<v>> : v \in Values } \cup {NA}

\* The column of the scenario of section 8.
ScenarioColumn == << <<1>>, <<2>>, <<3>>, <<4>>, <<5>>, <<100>> >>

\* df[col].dropna()
dropna(col) ==
    LET kept == SelectSeq(col, LAMBDA v : v # NA)
    IN  [i \in 1..Len(kept) |-> kept[i][1]]

RECURSIVE Insert(_, _)
Insert(q, v) ==
    IF q = <<>> THEN <<v>>
    ELSE IF v <= Head(q) THEN <<v>> \o q
    ELSE <<Head(q)>> \o Insert(Tail(q), v)

RECURSIVE Sort(_)
Sort(q) == IF q = <<>> THEN <<>> ELSE Insert(Sort(Tail(q)), Head(q))

\* s.quantile(k/4) in eighths, by linear interpolation between the order
\* statistics around position (n - 1) * k / 4 (pandas' default).
quantile(s, k) ==
    LET x == Sort(s)
        h == (Len(s) - 1) * k
        i == (h \div 4) + 1
        f == h % 4
    IN  IF f = 0 THEN 8 * x[i]
        ELSE 8 * x[i] + 2 * f * (x[i + 1] - x[i])

is_outlier_inclusive(v, lo, hi) == 8 * v <= lo \/ 8 * v >= hi

\* (s < lo) | (s > hi)
is_outlier(v, lo, hi) == 8 * v < lo \/ 8 * v > hi

Max(a, b) == IF a >= b THEN a ELSE b

ratio_over_all_rows(count, s, col) == [num |-> count, den |-> Max(1, Len(col))]

\* out.shape[0] / max(1, s.shape[0])
outlier_ratio(count, s, col) == [num |-> count, den |-> Max(1, Len(s))]

quick_outliers_iqr(col) ==
    LET s == dropna(col)
    IN  IF Len(s) = 0 THEN None
        ELSE LET q1 == quantile(s, 1)
                 q3 == quantile(s, 3)
                 iqr == q3 - q1
                 lo == q1 - (3 * iqr) \div 2
                 hi == q3 + (3 * iqr) \div 2
                 out == SelectSeq(s, LAMBDA v : is_outlier(v, lo, hi))
             IN  [q1 |-> q1, q3 |-> q3, iqr |-> iqr, low |-> lo, high |-> hi,
                  outlier_count |-> Len(out),
                  outlier_ratio |-> outlier_ratio(Len(out), s, col)]

(***************************************************************************)
(* load_data.  A file is its extension, the set of encodings under which   *)
(* the pandas reader decodes it, and the table it holds.                   *)
(***************************************************************************)
Exts == {"csv", "CSV", "xlsx", "xls", "json", "parquet", "txt"}

\* str.lower() on the extensions of Exts.
lower(ext) == IF ext = "CSV" THEN "csv" ELSE ext

CsvEncodings == <<"utf-8", "gbk", "gb2312", "gb18030", "latin-1">>
JsonEncodings == <<"utf-8", "gbk">>

encodings(ext) ==
    IF lower(ext) = "csv" THEN CsvEncodings
    ELSE IF lower(ext) = "json" THEN JsonEncodings
    ELSE <<>>

Range(q) == { q[j] : j \in DOMAIN q }

NoTable == [nrows |-> 0, cols |-> <<>>]
NoFile == [ext |-> "", decodes |-> {}, table |-> NoTable]
NoError == [kind |-> "none", text |-> "", names |-> <<>>]


\* for enc in encodings: try: return read(filepath, encoding=enc)
\*                       except ...: continue
RECURSIVE TryEncodings(_, _, _, _)
TryEncodings(f, encs, k, log) ==
    IF k > Len(encs) THEN [ok |-> FALSE, tried |-> log]
    ELSE IF encs[k] \in f.decodes THEN [ok |-> TRUE, tried |-> Append(log, encs[k])]
    ELSE TryEncodings(f, encs, k + 1, Append(log, encs[k]))

Loaded(f, log) == [ok |-> TRUE, df |-> f.table, tried |-> log, err |-> NoError]

Raised(log, text, names) ==
    [ok |-> FALSE, df |-> NoTable, tried |-> log,
     err |-> [kind |-> "ValueError", text |-> text, names |-> names]]

load_data(f) ==
    LET ext == lower(f.ext)
    IN  IF ext = "csv"
        THEN LET r == TryEncodings(f, CsvEncodings, 1, <<>>)
             IN  IF r.ok THEN Loaded(f, r.tried)
                 ELSE Raised(r.tried, "Cannot decode CSV file with encodings: ", CsvEncodings)
        ELSE IF ext \in {"xlsx", "xls"} THEN Loaded(f, <<>>)
        ELSE IF ext = "json"
        THEN LET r == TryEncodings(f, JsonEncodings, 1, <<>>)
             IN  IF r.ok THEN Loaded(f, r.tried)
                 ELSE Raised(r.tried, "Cannot decode JSON file.", <<>>)
        ELSE IF ext = "parquet" THEN Loaded(f, <<>>)
        ELSE Raised(<<>>, "Unsupported file format: .", <<>>)

(***************************************************************************)
(* run.  A path is <<name, a, b>>: <<"hist", c, 0>> stands for             *)
(* images/hist_<c>.png and <<"trend", y, t>> for images/trend_<y>_by_<t>.  *)
(***************************************************************************)
HeatmapCols == 12

HistCaps == {0, 1, 6}
BarCaps == {0, 1, 4}

Min(a, b) == IF a <= b THEN a ELSE b

\* q[:k] for k >= 0
Take(q, k) == SubSeq(q, 1, Min(k, Len(q)))

OutDir == <<"outdir", 0, 0>>
ImgDir == <<"images", 0, 0>>
ReportPath == <<"report.md", 0, 0>>
HistPath(c) == <<"hist", c, 0>>
BarPath(c) == <<"bar", c, 0>>
TrendPath(y, t) == <<"trend", y, t>>
HeatmapPath == <<"corr_heatmap", 0, 0>>

Chart(kind, cols, path) == [kind |-> kind, cols |-> cols, path |-> path]

\* An exception raised while a chart is drawn or saved.
RenderError == [kind |-> "RenderError", text |-> "", names |-> <<>>]

NoReport == [written |-> FALSE, gallery |-> <<>>, outlier_rows |-> <<>>, group_summaries |-> <<>>]

\* The file run is given: any extension, decodable by the first encoding
\* tried or by none, holding a table of at most RunCols columns.
IsRunFile(f) ==
    \E e \in Exts : \E d \in { {}, Range(encodings(e)) } :
        \E n \in {0, 1} : \E k \in 0..RunCols : \E cs \in [1..k -> Columns(n)] :
            f = [ext |-> e, decodes |-> d, table |-> [nrows |-> n, cols |-> cs]]

\* quick_outliers_iqr(df, col) is None when no value of the column is left
\* after dropna, and a report otherwise.
has_outlier_info(t, c) == t.cols[c].nparsed > 0

heatmap_needs_one(numeric_cols) == Len(numeric_cols) < 1

\* save_corr_heatmap: if len(numeric_cols) < 2: return False
heatmap_skipped(numeric_cols) == Len(numeric_cols) < 2

\* for col, info in outliers.items(): if not info: continue
outlier_rows(r, o) ==
    IF r.numeric = <<>> THEN <<>>
    ELSE LET kept == SelectSeq(o, LAMBDA e : e.info)
         IN  [j \in 1..Len(kept) |-> kept[j].col]

\* the categorical columns run groups by
group_columns(r) ==
    IF r.categorical # <<>> /\ r.numeric # <<>> THEN Take(r.categorical, 2) ELSE <<>>

(***************************************************************************)
(* generate_bilingual_insights, section 3 (correlation insight).  The      *)
(* numeric columns hold no missing value here.  A Pearson coefficient is   *)
(* kept exactly as [num, den2], standing for num / sqrt(den2):             *)
(* num = n*Sxy - Sx*Sy and den2 = (n*Sxx - Sx^2) * (n*Syy - Sy^2); it is   *)
(* NaN when den2 = 0.                                                      *)
(***************************************************************************)
CorrValues == {0, 1}

NoInsight == [emitted |-> FALSE, pair |-> <<0, 0>>]

RECURSIVE SumTo(_, _)
SumTo(f, n) == IF n = 0 THEN 0 ELSE f[n] + SumTo(f, n - 1)

Dot(x, y) == SumTo([j \in DOMAIN x |-> x[j] * y[j]], Len(x))

\* df.corr(numeric_only=True) at columns a, b
corr(cols, a, b) ==
    LET x == cols[a]
        y == cols[b]
        n == Len(x)
        sx == SumTo(x, n)
        sy == SumTo(y, n)
    IN  [num |-> n * Dot(x, y) - sx * sy,
         den2 |-> (n * Dot(x, x) - sx * sx) * (n * Dot(y, y) - sy * sy)]

\* corr.where(np.triu(np.ones(corr.shape), k=1)).unstack().dropna(): the
\* entries <<column, row>> with row before column whose value is not NaN.
upper_pairs(cols) ==
    { p \in (1..Len(cols)) \X (1..Len(cols)) :
        p[2] < p[1] /\ corr(cols, p[2], p[1]).den2 > 0 }

\* r > t for two coefficients that are not NaN
Greater(r, t) ==
    IF r.num >= 0
    THEN IF t.num >= 0 THEN r.num * r.num * t.den2 > t.num * t.num * r.den2 ELSE TRUE
    ELSE IF t.num >= 0 THEN FALSE ELSE r.num * r.num * t.den2 < t.num * t.num * r.den2

\* pairs.sort_values(ascending=False).index[0]: p can come first when no
\* entry is greater.  The default sort (quicksort) is not stable, so among
\* equal greatest entries any can come first.
sorts_first(cols, p) ==
    \A q \in upper_pairs(cols) : ~Greater(corr(cols, q[2], q[1]), corr(cols, p[2], p[1]))

(***************************************************************************)
(* The values of the variables a specification does not use.               *)
(***************************************************************************)
RolesIdle == df = NoTable /\ roles = NoRoles
LoadIdle == file = NoFile /\ tried = <<>> /\ err = NoError
IqrIdle == column = <<>> /\ outlier = None
CorrIdle == numeric = <<>> /\ insight = NoInsight
RunIdle ==
    /\ caps = [max_numeric_hists |-> 0, max_cat_bars |-> 0]
    /\ idx = 0
    /\ fs = <<>>
    /\ charts = <<>>
    /\ outliers = <<>>
    /\ report = NoReport

(***************************************************************************)
(* Specification of role inference on every table within the bounds: the   *)
(* tables of up to MaxCols columns and ShortRows rows, and the tables of   *)
(* one column and up to MaxRows rows.                                      *)
(***************************************************************************)
InitRoles ==
    /\ pc = "infer"
    /\ \/ IsTable(df, MaxCols, 0..ShortRows)
       \/ IsTable(df, 1, 0..MaxRows)
    /\ roles = NoRoles
    /\ IqrIdle
    /\ CorrIdle
    /\ LoadIdle
    /\ RunIdle

InferColumnRoles ==
    /\ pc = "infer"
    /\ roles' = infer_column_roles(df)
    /\ pc' = "inferred"
    /\ UNCHANGED <<df, iqrVars, corrVars, loadVars, runVars>>

NextRoles == InferColumnRoles

SpecRoles == InitRoles /\ [][NextRoles]_vars

(***************************************************************************)
(* Specification of the outlier detector on every column within the bounds *)
(* and on the scenario column.                                             *)
(***************************************************************************)
InitIqr ==
    /\ pc = "iqr"
    /\ \/ \E k \in 0..MaxLen : column \in [1..k -> Cells]
       \/ column = ScenarioColumn
    /\ outlier = None
    /\ CorrIdle
    /\ RolesIdle
    /\ LoadIdle
    /\ RunIdle

QuickOutliersIqr ==
    /\ pc = "iqr"
    /\ outlier' = quick_outliers_iqr(column)
    /\ pc' = "iqr_done"
    /\ UNCHANGED <<column, rolesVars, corrVars, loadVars, runVars>>

NextIqr == QuickOutliersIqr

SpecIqr == InitIqr /\ [][NextIqr]_vars

(***************************************************************************)
(* Specification of the loader on every file within the bounds.            *)
(***************************************************************************)
InitLoad ==
    /\ pc = "load"
    /\ \E e \in Exts : \E d \in SUBSET Range(encodings(e)) : \E t \in [nrows : {0}, cols : [1..1 -> Columns(0)]] :
          file = [ext |-> e, decodes |-> d, table |-> t]
    /\ tried = <<>>
    /\ err = NoError
    /\ RolesIdle
    /\ IqrIdle
    /\ CorrIdle
    /\ RunIdle

LoadData ==
    /\ pc = "load"
    /\ LET r == load_data(file)
       IN  /\ tried' = r.tried
           /\ err' = r.err
           /\ df' = r.df
           /\ pc' = IF r.ok THEN "loaded" ELSE "failed"
    /\ UNCHANGED <<file, roles, iqrVars, corrVars, runVars>>

NextLoad == LoadData

SpecLoad == InitLoad /\ [][NextLoad]_vars

(***************************************************************************)
(* Specification of run: one action per statement group of the function,   *)
(* one step per iteration of its loops.  Drawing and saving a chart is the *)
(* work of matplotlib: it either writes the image or raises, and run       *)
(* catches nothing.                                                        *)
(***************************************************************************)
Init ==
    /\ pc = "run"
    /\ IsRunFile(file)
    /\ tried = <<>>
    /\ err = NoError
    /\ caps \in [max_numeric_hists : HistCaps, max_cat_bars : BarCaps]
    /\ idx = 0
    /\ fs = <<>>
    /\ charts = <<>>
    /\ outliers = <<>>
    /\ report = NoReport
    /\ RolesIdle
    /\ IqrIdle
    /\ CorrIdle

\* The save_* call raised: nothing catches the exception, it leaves run.
Abort ==
    /\ pc' = "failed"
    /\ err' = RenderError
    /\ UNCHANGED <<idx, fs, charts, outliers>>

RunMakeDirsThenLoad ==
    /\ pc = "run"
    /\ LET r == load_data(file)
       IN  /\ tried' = r.tried
           /\ err' = r.err
           /\ df' = r.df
           /\ fs' = <<OutDir, ImgDir>>
           /\ pc' = IF r.ok THEN "infer" ELSE "failed"
    /\ UNCHANGED <<file, roles, iqrVars, corrVars, caps, idx, charts, outliers, report>>

\* df = load_data(filepath)
RunLoadData ==
    /\ pc = "run"
    /\ LET r == load_data(file)
       IN  /\ tried' = r.tried
           /\ err' = r.err
           /\ df' = r.df
           /\ pc' = IF r.ok THEN "makedirs" ELSE "failed"
    /\ UNCHANGED <<file, roles, iqrVars, corrVars, runVars>>

\* _ensure_dir(outdir); _ensure_dir(imgdir)
RunMakeDirs ==
    /\ pc = "makedirs"
    /\ fs' = fs \o <<OutDir, ImgDir>>
    /\ pc' = "infer"
    /\ UNCHANGED <<rolesVars, iqrVars, corrVars, loadVars, caps, idx, charts, outliers, report>>

\* roles = infer_column_roles(df); charts = []; outliers = {}
RunInferRoles ==
    /\ pc = "infer"
    /\ roles' = infer_column_roles(df)
    /\ charts' = <<>>
    /\ outliers' = <<>>
    /\ idx' = 1
    /\ pc' = "hists"
    /\ UNCHANGED <<df, iqrVars, corrVars, loadVars, caps, fs, report>>

\* One iteration of `for col in roles["numeric"][:max_numeric_hists]`.
RunHist ==
    /\ pc = "hists"
    /\ idx <= Len(Take(roles.numeric, caps.max_numeric_hists))
    /\ LET col == Take(roles.numeric, caps.max_numeric_hists)[idx]
           out == HistPath(col)
       IN  \/ /\ fs' = Append(fs, out)
              /\ charts' = Append(charts, Chart("hist", <<col>>, out))
              /\ outliers' = Append(outliers, [col |-> col, info |-> has_outlier_info(df, col)])
              /\ idx' = idx + 1
              /\ UNCHANGED <<pc, err>>
           \/ Abort
    /\ UNCHANGED <<rolesVars, iqrVars, corrVars, file, tried, caps, report>>

RunHistsDone ==
    /\ pc = "hists"
    /\ idx > Len(Take(roles.numeric, caps.max_numeric_hists))
    /\ idx' = 1
    /\ pc' = "bars"
    /\ UNCHANGED <<rolesVars, iqrVars, corrVars, loadVars, caps, fs, charts, outliers, report>>

\* One iteration of `for col in roles["categorical"][:max_cat_bars]`.
RunBar ==
    /\ pc = "bars"
    /\ idx <= Len(Take(roles.categorical, caps.max_cat_bars))
    /\ LET col == Take(roles.categorical, caps.max_cat_bars)[idx]
           out == BarPath(col)
       IN  \/ /\ fs' = Append(fs, out)
              /\ charts' = Append(charts, Chart("bar", <<col>>, out))
              /\ idx' = idx + 1
              /\ UNCHANGED <<pc, err, outliers>>
           \/ Abort
    /\ UNCHANGED <<rolesVars, iqrVars, corrVars, file, tried, caps, report>>

RunBarsDone ==
    /\ pc = "bars"
    /\ idx > Len(Take(roles.categorical, caps.max_cat_bars))
    /\ pc' = "trend"
    /\ UNCHANGED <<rolesVars, iqrVars, corrVars, loadVars, runVars>>

\* if roles["datetime"] and roles["numeric"]: ... save_line ...
RunTrend ==
    /\ pc = "trend"
    /\ IF roles.datetime # <<>> /\ roles.numeric # <<>>
       THEN LET tcol == roles.datetime[1]
                ycol == roles.numeric[1]
                out == TrendPath(ycol, tcol)
            IN  \/ /\ fs' = Append(fs, out)
                   /\ charts' = Append(charts, Chart("trend", <<tcol, ycol>>, out))
                   /\ pc' = "heatmap"
                   /\ UNCHANGED <<idx, err, outliers>>
                \/ Abort
       ELSE /\ pc' = "heatmap"
            /\ UNCHANGED <<idx, err, fs, charts, outliers>>
    /\ UNCHANGED <<rolesVars, iqrVars, corrVars, file, tried, caps, report>>

\* if roles["numeric"]: ok = save_corr_heatmap(...); if ok: charts.append
RunHeatmap ==
    /\ pc = "heatmap"
    /\ IF roles.numeric # <<>> /\ ~heatmap_skipped(Take(roles.numeric, HeatmapCols))
       THEN \/ /\ fs' = Append(fs, HeatmapPath)
               /\ charts' = Append(charts,
                      Chart("heatmap", Take(roles.numeric, HeatmapCols), HeatmapPath))
               /\ pc' = "report"
               /\ UNCHANGED <<idx, err, outliers>>
            \/ Abort
       ELSE /\ pc' = "report"
            /\ UNCHANGED <<idx, err, fs, charts, outliers>>
    /\ UNCHANGED <<rolesVars, iqrVars, corrVars, file, tried, caps, report>>

\* A variant that writes the report in two parts, the header first and the
\* assembled sections appended by a second write.
RunWriteReportInParts ==
    /\ pc = "report"
    /\ report' = [written |-> TRUE, gallery |-> charts,
                  outlier_rows |-> outlier_rows(roles, outliers),
                  group_summaries |-> group_columns(roles)]
    /\ fs' = fs \o <<ReportPath, ReportPath>>
    /\ pc' = "done"
    /\ UNCHANGED <<rolesVars, iqrVars, corrVars, loadVars, caps, idx, charts, outliers>>

\* group summaries, then write_report_md(...): the file is opened and
\* written once, after every section has been assembled.
RunWriteReport ==
    /\ pc = "report"
    /\ report' = [written |-> TRUE, gallery |-> charts,
                  outlier_rows |-> outlier_rows(roles, outliers),
                  group_summaries |-> group_columns(roles)]
    /\ fs' = Append(fs, ReportPath)
    /\ pc' = "done"
    /\ UNCHANGED <<rolesVars, iqrVars, corrVars, loadVars, caps, idx, charts, outliers>>

Next ==
    \/ RunLoadData
    \/ RunMakeDirs
    \/ RunInferRoles
    \/ RunHist
    \/ RunHistsDone
    \/ RunBar
    \/ RunBarsDone
    \/ RunTrend
    \/ RunHeatmap
    \/ RunWriteReport

Spec == Init /\ [][Next]_vars

(***************************************************************************)
(* Specification of the correlation insight on every set of numeric        *)
(* columns within the bounds.                                              *)
(***************************************************************************)
InitCorr ==
    /\ pc = "insights"
    /\ \E k \in 0..CorrCols : \E n \in 1..CorrRows :
          numeric \in [1..k -> [1..n -> CorrValues]]
    /\ insight = NoInsight
    /\ RolesIdle
    /\ IqrIdle
    /\ LoadIdle
    /\ RunIdle

\* if len(roles["numeric"]) >= 2: ... if not pairs.empty: top_pair = ...
GenerateInsights ==
    /\ pc = "insights"
    /\ IF Len(numeric) >= 2 /\ upper_pairs(numeric) # {}
       THEN \E p \in upper_pairs(numeric) :
                /\ sorts_first(numeric, p)
                /\ insight' = [emitted |-> TRUE, pair |-> p]
       ELSE insight' = NoInsight
    /\ pc' = "insights_done"
    /\ UNCHANGED <<numeric, rolesVars, iqrVars, loadVars, runVars>>

NextCorr == GenerateInsights

SpecCorr == InitCorr /\ [][NextCorr]_vars

(***************************************************************************)
(* Properties of role inference.                                           *)
(***************************************************************************)
Occurrences(q, c) == Cardinality({ i \in DOMAIN q : q[i] = c })

InBucket(c, b) == Occurrences(roles[b], c) > 0

TotalOccurrences(c) ==
    Occurrences(roles.datetime, c) + Occurrences(roles.numeric, c)
        + Occurrences(roles.categorical, c) + Occurrences(roles.id_like, c)

ColumnNames == 1..Len(df.cols)

\* The fraction of positions of column c that parse as dates is >= 70%.
ParsesAsDates(c) == df.nrows > 0 /\ 10 * df.cols[c].nparsed >= 7 * df.nrows

DistinctRatioHigh(c) == df.nrows > 0 /\ 10 * df.cols[c].nunique > 9 * df.nrows

\* C1: after infer_column_roles every column of the table occurs exactly
\* once in the four buckets taken together, and the buckets hold nothing
\* but columns of the table.
C1_BucketsPartitionColumns ==
    pc = "inferred" =>
        /\ \A c \in ColumnNames : TotalOccurrences(c) = 1
        /\ \A i \in 1..4 : \A j \in DOMAIN roles[RoleNames[i]] :
               roles[RoleNames[i]][j] \in ColumnNames

C1_Witness ==
    /\ pc = "inferred"
    /\ Len(df.cols) = 2
    /\ roles.datetime = <<1>>
    /\ roles.id_like = <<2>>

\* C2 as stated: a column parsing as dates in >= 70% of positions is
\* datetime whatever its dtype, and a column parsing below 70%, not numeric,
\* with distinct ratio > 0.90 is id_like.
C2_DatetimeWhateverDtype ==
    pc = "inferred" =>
        \A c \in ColumnNames :
            /\ ParsesAsDates(c) => InBucket(c, "datetime")
            /\ (~ParsesAsDates(c) /\ ~is_numeric_dtype(df.cols[c]) /\ DistinctRatioHigh(c))
                  => InBucket(c, "id_like")

\* C2 amended: an object (text) column parsing as dates in >= 70% of
\* positions is datetime; a column of numeric or native datetime dtype is
\* never datetime, whatever fraction of it parses; a column parsing below
\* 70%, not numeric, with distinct ratio > 0.90 is id_like.
C2_DatetimeOnlyForObject ==
    pc = "inferred" =>
        \A c \in ColumnNames :
            /\ (df.cols[c].dtype = "object" /\ ParsesAsDates(c)) => InBucket(c, "datetime")
            /\ (df.cols[c].dtype # "object") => ~InBucket(c, "datetime")
            /\ (~ParsesAsDates(c) /\ ~is_numeric_dtype(df.cols[c]) /\ DistinctRatioHigh(c))
                  => InBucket(c, "id_like")

\* A text column of ten rows, seven of which parse, is datetime.
C2_Witness ==
    /\ pc = "inferred"
    /\ df.nrows = 10
    /\ Len(df.cols) = 1
    /\ df.cols[1] = [dtype |-> "object", nparsed |-> 7, nunique |-> 10]
    /\ roles.datetime = <<1>>

\* C3 as stated: on a table of 0 rows every column is categorical.
C3_EmptyTableAllCategorical ==
    (pc = "inferred" /\ df.nrows = 0) =>
        \A c \in ColumnNames : InBucket(c, "categorical")

\* C3 amended: on a table of 0 rows a column of numeric dtype is numeric and
\* every other column is categorical; none is datetime or id_like.
C3_EmptyTableNumericOrCategorical ==
    (pc = "inferred" /\ df.nrows = 0) =>
        /\ roles.datetime = <<>>
        /\ roles.id_like = <<>>
        /\ \A c \in ColumnNames :
               IF is_numeric_dtype(df.cols[c]) THEN InBucket(c, "numeric")
               ELSE InBucket(c, "categorical")

C3_Witness ==
    /\ pc = "inferred"
    /\ df.nrows = 0
    /\ Len(df.cols) = 2
    /\ df.cols[1].dtype = "numeric"
    /\ df.cols[2].dtype = "datetime64"
    /\ roles.numeric = <<1>>
    /\ roles.categorical = <<2>>

(***************************************************************************)
(* Properties of the outlier detector.                                     *)
(***************************************************************************)
NonMissing == { i \in DOMAIN column : column[i] # NA }

CountBelow(v) == Cardinality({ i \in NonMissing : column[i][1] < v })

CountAtMost(v) == Cardinality({ i \in NonMissing : column[i][1] <= v })

\* The k-th smallest non-missing value, k counted from 0.
OrderStat(k) == CHOOSE v \in { column[i][1] : i \in NonMissing } :
    /\ CountBelow(v) <= k
    /\ k < CountAtMost(v)

\* The linear-interpolation quantile k/4 of the non-missing values, in
\* eighths: the weighted mean of the two order statistics around position
\* (n - 1) * k / 4.
LinearQuantile(k) ==
    LET n == Cardinality(NonMissing)
        h == (n - 1) * k
        i == h \div 4
        f == h % 4
    IN  IF f = 0 THEN 8 * OrderStat(i)
        ELSE 2 * ((4 - f) * OrderStat(i) + f * OrderStat(i + 1))

StrictlyOutside(lo, hi) ==
    { i \in NonMissing : 8 * column[i][1] < lo \/ 8 * column[i][1] > hi }

\* C4: on a column with a non-missing value, q1 and q3 are the
\* linear-interpolation quartiles of the non-missing values,
\* low = q1 - 1.5 * (q3 - q1), high = q3 + 1.5 * (q3 - q1), outlier_count is
\* the number of non-missing values strictly below low or strictly above
\* high, and the scenario column gives 2.25, 4.75, -1.5, 8.5 and 1.
C4_IqrBoundsAndCount ==
    (pc = "iqr_done" /\ NonMissing # {}) =>
        /\ outlier # None
        /\ outlier.q1 = LinearQuantile(1)
        /\ outlier.q3 = LinearQuantile(3)
        /\ 2 * outlier.low = 2 * outlier.q1 - 3 * (outlier.q3 - outlier.q1)
        /\ 2 * outlier.high = 2 * outlier.q3 + 3 * (outlier.q3 - outlier.q1)
        /\ outlier.outlier_count = Cardinality(StrictlyOutside(outlier.low, outlier.high))
        /\ (column = ScenarioColumn) =>
              /\ outlier.q1 = 18
              /\ outlier.q3 = 38
              /\ outlier.low = -12
              /\ outlier.high = 68
              /\ outlier.outlier_count = 1

\* A value equal to a bound is present and is not counted, next to one
\* that is counted.
C4_Witness ==
    /\ pc = "iqr_done"
    /\ outlier # None
    /\ \E i \in NonMissing : 8 * column[i][1] = outlier.high
    /\ outlier.outlier_count = 1

\* C5: quick_outliers_iqr returns None exactly when the column has no
\* non-missing value; otherwise outlier_ratio is outlier_count over the
\* number of non-missing values, a non-zero divisor, and lies in [0, 1].
C5_RatioInUnitIntervalOrNone ==
    pc = "iqr_done" =>
        /\ (outlier = None) <=> (NonMissing = {})
        /\ (outlier # None) =>
              /\ outlier.outlier_ratio.den = Cardinality(NonMissing)
              /\ outlier.outlier_ratio.den > 0
              /\ outlier.outlier_ratio.num = outlier.outlier_count
              /\ 0 <= outlier.outlier_ratio.num
              /\ outlier.outlier_ratio.num <= outlier.outlier_ratio.den

\* Both outcomes: a column of missing values only, and a column with a
\* missing value whose ratio is 1/4.
C5_Witness ==
    /\ pc = "iqr_done"
    /\ \/ (column = <<NA, NA>> /\ outlier = None)
       \/ (Len(column) = 5 /\ outlier # None /\ NA \in { column[i] : i \in DOMAIN column }
             /\ outlier.outlier_ratio = [num |-> 1, den |-> 4])

(***************************************************************************)
(* Properties of run.                                                      *)
(***************************************************************************)
IsPrefix(p, q) == Len(p) <= Len(q) /\ SubSeq(q, 1, Len(p)) = p

Selected(ch) == [kind |-> ch.kind, cols |-> ch.cols]

SelectedCharts(q) == [j \in 1..Len(q) |-> Selected(q[j])]

\* The charts C6 names, from the role lists and the caps.
ExpectedCharts ==
    LET nh == Min(Len(roles.numeric), caps.max_numeric_hists)
        nb == Min(Len(roles.categorical), caps.max_cat_bars)
        hists == [j \in 1..nh |-> [kind |-> "hist", cols |-> <<roles.numeric[j]>>]]
        bars == [j \in 1..nb |-> [kind |-> "bar", cols |-> <<roles.categorical[j]>>]]
        trend == IF Len(roles.datetime) >= 1 /\ Len(roles.numeric) >= 1
                 THEN << [kind |-> "trend", cols |-> <<roles.datetime[1], roles.numeric[1]>>] >>
                 ELSE <<>>
        heat == IF Len(roles.numeric) >= 2
                THEN << [kind |-> "heatmap", cols |-> Take(roles.numeric, HeatmapCols)] >>
                ELSE <<>>
    IN  hists \o bars \o trend \o heat

EmptySource(ch) ==
    \/ ch.kind = "hist" /\ df.cols[ch.cols[1]].nparsed = 0
    \/ ch.kind = "trend" /\ df.cols[ch.cols[2]].nparsed = 0

\* C7: a chart whose column has no non-missing value, or whose rendering
\* fails, is skipped: no image file is left for it, the gallery does not
\* list it, and the run goes on to write report.md.
C7_EmptyChartSkipped ==
    /\ err # RenderError
    /\ \A j \in DOMAIN charts :
           EmptySource(charts[j]) => charts[j].path \notin Range(fs)
    /\ \A j \in DOMAIN report.gallery : ~EmptySource(report.gallery[j])

\* C8: when load_data fails, run ends with that error and nothing has been
\* created: no directory, no image, no report.
C8_LoadFailureWritesNothing ==
    ~load_data(file).ok =>
        /\ pc \in {"run", "failed"}
        /\ fs = <<>>
        /\ ~report.written
        /\ pc = "failed" => err = load_data(file).err

\* Both failures: an extension load_data does not know, and a text file no
\* encoding decodes.
C8_Witness ==
    /\ pc = "failed"
    /\ fs = <<>>
    /\ \/ (file.ext = "txt" /\ err.text = "Unsupported file format: .")
       \/ (file.ext = "csv" /\ file.decodes = {} /\ err.names = CsvEncodings)

(***************************************************************************)
(* Properties of the loader.                                               *)
(***************************************************************************)
\* The index of the first encoding of the list that decodes the file, or
\* one past the list.
FirstDecoding(f) ==
    LET encs == encodings(f.ext)
        hits == { k \in DOMAIN encs : encs[k] \in f.decodes }
    IN  IF hits = {} THEN Len(encs) + 1
        ELSE CHOOSE k \in hits : \A m \in hits : k <= m

IsTextFormat(f) == lower(f.ext) \in {"csv", "json"}

\* C9: for .csv and .json the encodings are attempted in the fixed order,
\* the table of the first one that decodes is returned and no later one is
\* tried, and when none decodes the error names the attempted encodings.
C9_EncodingsInOrderAndNamed ==
    (pc \in {"loaded", "failed"} /\ IsTextFormat(file)) =>
        LET encs == encodings(file.ext)
            k == FirstDecoding(file)
        IN  /\ tried = SubSeq(encs, 1, Min(k, Len(encs)))
            /\ (k <= Len(encs)) => (pc = "loaded" /\ df = file.table)
            /\ (k > Len(encs)) => (pc = "failed" /\ err.names = encs)

(***************************************************************************)
(* Properties of the correlation insight.                                  *)
(***************************************************************************)
\* |r| > |t| for two coefficients that are not NaN
AbsGreater(r, t) == r.num * r.num * t.den2 > t.num * t.num * r.den2

\* C10: the strong-correlation line is emitted exactly when two numeric
\* columns exist and some pairwise correlation is defined, and the pair it
\* reports has the largest absolute correlation of all pairs of distinct
\* numeric columns.  (The tie-break the claim adds is left out: the line
\* already fails to report the strongest magnitude.)
C10_StrongestMagnitudeReported ==
    pc = "insights_done" =>
        /\ insight.emitted <=> (Len(numeric) >= 2 /\ upper_pairs(numeric) # {})
        /\ insight.emitted =>
              \A q \in upper_pairs(numeric) :
                  ~AbsGreater(corr(numeric, q[2], q[1]),
                              corr(numeric, insight.pair[2], insight.pair[1]))

(***************************************************************************)
(* Properties of the report write.                                         *)
(***************************************************************************)
\* The number of times path p was written, in the order of fs.
Writes(p) == Cardinality({k \in DOMAIN fs : fs[k] = p})

\* C11: report.md is written by a run exactly when the run completes; it is
\* then written exactly once and is the last file write of the run, so that
\* every chart image listed in the report's gallery was written before the
\* report and no file is written after it.
C11_ReportWrittenOnceAndLast ==
    /\ pc = "done" <=> report.written
    /\ report.written <=> Writes(ReportPath) > 0
    /\ report.written =>
          /\ Writes(ReportPath) = 1
          /\ fs[Len(fs)] = ReportPath
          /\ \A j \in DOMAIN report.gallery :
                 \E k \in 1..(Len(fs) - 1) : fs[k] = report.gallery[j].path

\* A completed run whose gallery lists two chart images, both written
\* before the report.
C11_Witness ==
    /\ pc = "done"
    /\ Len(report.gallery) = 2
    /\ fs = <<OutDir, ImgDir, report.gallery[1].path, report.gallery[2].path, ReportPath>>

(***************************************************************************)
(* Properties of the outlier table.                                        *)
(***************************************************************************)
\* The numeric columns that hold a non-missing value, in the order of
\* roles.numeric.
NumericWithValues ==
    SelectSeq(roles.numeric, LAMBDA c : df.cols[c].nparsed > 0)

\* C12: whatever max_numeric_hists is, the outlier table of the report of a
\* completed run has one row for each column of the numeric role that holds
\* a non-missing value, and no other row.
C12_OutlierRowPerNumericColumn ==
    pc = "done" => report.outlier_rows = NumericWithValues

=============================================================================
